---- MODULE Spec2Model ----
(***************************************************************************)
(* Model of tractome/io.py: validate_path and read_csv.                    *)
(*                                                                         *)
(* Strings that the code inspects (paths, file names) are sequences of     *)
(* code points, so that lower(), endswith(), expanduser() and the string   *)
(* order used by sorted() are computed as Python computes them.  The text  *)
(* of a CSV field is a TLA+ string.  A file's content is the sequence of   *)
(* records csv.reader yields for it (a blank line is the empty record).    *)
(* numpy is modelled as numpy >= 1.24: a ragged nested list is a           *)
(* ValueError.                                                             *)
(***************************************************************************)
EXTENDS Integers, Sequences, FiniteSets, TLC

VARIABLES
    fs,           \* the directory's entries: name -> [kind, lines]
    pc,           \* position of the running call
    call,         \* [op, file_path, has_header] of the running call
    csv_paths,    \* read_csv: the resolved files, in processing order
    idx,          \* read_csv: 1-based position of the for loop in csv_paths
    openFiles,    \* the files the call holds open
    opens,        \* history: every path the call has opened, in order
    chunk,        \* read_csv: the array parsed from the file now open
    data_chunks,  \* read_csv: the non-empty chunks so far
    data,         \* read_csv: the concatenated array (line 176)
    result,       \* the value returned, None while there is none
    error         \* the exception raised, None while there is none

vars == <<fs, pc, call, csv_paths, idx, openFiles, opens, chunk, data_chunks,
          data, result, error>>

(***************************************************************************)
(* Bounds of the model and constants of the program.                       *)
(***************************************************************************)
MaxLines == 3     \* records per generated file
CoordCols == 3    \* data[:, :3] / data[:, 3:]

None == [k |-> "none", v |-> <<>>]

Min(a, b) == IF a < b THEN a ELSE b
Max(a, b) == IF a > b THEN a ELSE b

(***************************************************************************)
(* Python str operations on code-point sequences.  str.lower() follows the *)
(* Unicode character database (the tables below are those of Unicode 14,   *)
(* as CPython 3.11 carries them).                                          *)
(***************************************************************************)
\* Simple lower-case mappings beyond ASCII: <<first, last, stride, delta>>
\* maps first, first + stride, ..., last to the code point delta further on.
LowerRuns ==
  <<
    <<192, 214, 1, 32>>, <<216, 222, 1, 32>>, <<256, 302, 2, 1>>, <<306,
    310, 2, 1>>, <<313, 327, 2, 1>>, <<330, 374, 2, 1>>, <<376, 376, 1,
    -121>>, <<377, 381, 2, 1>>, <<385, 385, 1, 210>>, <<386, 388, 2, 1>>,
    <<390, 390, 1, 206>>, <<391, 391, 1, 1>>, <<393, 394, 1, 205>>, <<395,
    395, 1, 1>>, <<398, 398, 1, 79>>, <<399, 399, 1, 202>>, <<400, 400, 1,
    203>>, <<401, 401, 1, 1>>, <<403, 403, 1, 205>>, <<404, 404, 1, 207>>,
    <<406, 406, 1, 211>>, <<407, 407, 1, 209>>, <<408, 408, 1, 1>>, <<412,
    412, 1, 211>>, <<413, 413, 1, 213>>, <<415, 415, 1, 214>>, <<416, 420,
    2, 1>>, <<422, 422, 1, 218>>, <<423, 423, 1, 1>>, <<425, 425, 1, 218>>,
    <<428, 428, 1, 1>>, <<430, 430, 1, 218>>, <<431, 431, 1, 1>>, <<433,
    434, 1, 217>>, <<435, 437, 2, 1>>, <<439, 439, 1, 219>>, <<440, 440, 1,
    1>>, <<444, 444, 1, 1>>, <<452, 452, 1, 2>>, <<453, 453, 1, 1>>, <<455,
    455, 1, 2>>, <<456, 456, 1, 1>>, <<458, 458, 1, 2>>, <<459, 475, 2, 1>>,
    <<478, 494, 2, 1>>, <<497, 497, 1, 2>>, <<498, 500, 2, 1>>, <<502, 502,
    1, -97>>, <<503, 503, 1, -56>>, <<504, 542, 2, 1>>, <<544, 544, 1,
    -130>>, <<546, 562, 2, 1>>, <<570, 570, 1, 10795>>, <<571, 571, 1, 1>>,
    <<573, 573, 1, -163>>, <<574, 574, 1, 10792>>, <<577, 577, 1, 1>>,
    <<579, 579, 1, -195>>, <<580, 580, 1, 69>>, <<581, 581, 1, 71>>, <<582,
    590, 2, 1>>, <<880, 882, 2, 1>>, <<886, 886, 1, 1>>, <<895, 895, 1,
    116>>, <<902, 902, 1, 38>>, <<904, 906, 1, 37>>, <<908, 908, 1, 64>>,
    <<910, 911, 1, 63>>, <<913, 929, 1, 32>>, <<931, 939, 1, 32>>, <<975,
    975, 1, 8>>, <<984, 1006, 2, 1>>, <<1012, 1012, 1, -60>>, <<1015, 1015,
    1, 1>>, <<1017, 1017, 1, -7>>, <<1018, 1018, 1, 1>>, <<1021, 1023, 1,
    -130>>, <<1024, 1039, 1, 80>>, <<1040, 1071, 1, 32>>, <<1120, 1152, 2,
    1>>, <<1162, 1214, 2, 1>>, <<1216, 1216, 1, 15>>, <<1217, 1229, 2, 1>>,
    <<1232, 1326, 2, 1>>, <<1329, 1366, 1, 48>>, <<4256, 4293, 1, 7264>>,
    <<4295, 4295, 1, 7264>>, <<4301, 4301, 1, 7264>>, <<5024, 5103, 1,
    38864>>, <<5104, 5109, 1, 8>>, <<7312, 7354, 1, -3008>>, <<7357, 7359,
    1, -3008>>, <<7680, 7828, 2, 1>>, <<7838, 7838, 1, -7615>>, <<7840,
    7934, 2, 1>>, <<7944, 7951, 1, -8>>, <<7960, 7965, 1, -8>>, <<7976,
    7983, 1, -8>>, <<7992, 7999, 1, -8>>, <<8008, 8013, 1, -8>>, <<8025,
    8031, 2, -8>>, <<8040, 8047, 1, -8>>, <<8072, 8079, 1, -8>>, <<8088,
    8095, 1, -8>>, <<8104, 8111, 1, -8>>, <<8120, 8121, 1, -8>>, <<8122,
    8123, 1, -74>>, <<8124, 8124, 1, -9>>, <<8136, 8139, 1, -86>>, <<8140,
    8140, 1, -9>>, <<8152, 8153, 1, -8>>, <<8154, 8155, 1, -100>>, <<8168,
    8169, 1, -8>>, <<8170, 8171, 1, -112>>, <<8172, 8172, 1, -7>>, <<8184,
    8185, 1, -128>>, <<8186, 8187, 1, -126>>, <<8188, 8188, 1, -9>>, <<8486,
    8486, 1, -7517>>, <<8490, 8490, 1, -8383>>, <<8491, 8491, 1, -8262>>,
    <<8498, 8498, 1, 28>>, <<8544, 8559, 1, 16>>, <<8579, 8579, 1, 1>>,
    <<9398, 9423, 1, 26>>, <<11264, 11311, 1, 48>>, <<11360, 11360, 1, 1>>,
    <<11362, 11362, 1, -10743>>, <<11363, 11363, 1, -3814>>, <<11364, 11364,
    1, -10727>>, <<11367, 11371, 2, 1>>, <<11373, 11373, 1, -10780>>,
    <<11374, 11374, 1, -10749>>, <<11375, 11375, 1, -10783>>, <<11376,
    11376, 1, -10782>>, <<11378, 11378, 1, 1>>, <<11381, 11381, 1, 1>>,
    <<11390, 11391, 1, -10815>>, <<11392, 11490, 2, 1>>, <<11499, 11501, 2,
    1>>, <<11506, 11506, 1, 1>>, <<42560, 42604, 2, 1>>, <<42624, 42650, 2,
    1>>, <<42786, 42798, 2, 1>>, <<42802, 42862, 2, 1>>, <<42873, 42875, 2,
    1>>, <<42877, 42877, 1, -35332>>, <<42878, 42886, 2, 1>>, <<42891,
    42891, 1, 1>>, <<42893, 42893, 1, -42280>>, <<42896, 42898, 2, 1>>,
    <<42902, 42920, 2, 1>>, <<42922, 42922, 1, -42308>>, <<42923, 42923, 1,
    -42319>>, <<42924, 42924, 1, -42315>>, <<42925, 42925, 1, -42305>>,
    <<42926, 42926, 1, -42308>>, <<42928, 42928, 1, -42258>>, <<42929,
    42929, 1, -42282>>, <<42930, 42930, 1, -42261>>, <<42931, 42931, 1,
    928>>, <<42932, 42946, 2, 1>>, <<42948, 42948, 1, -48>>, <<42949, 42949,
    1, -42307>>, <<42950, 42950, 1, -35384>>, <<42951, 42953, 2, 1>>,
    <<42960, 42960, 1, 1>>, <<42966, 42968, 2, 1>>, <<42997, 42997, 1, 1>>,
    <<65313, 65338, 1, 32>>, <<66560, 66599, 1, 40>>, <<66736, 66771, 1,
    40>>, <<66928, 66938, 1, 39>>, <<66940, 66954, 1, 39>>, <<66956, 66962,
    1, 39>>, <<66964, 66965, 1, 39>>, <<68736, 68786, 1, 64>>, <<71840,
    71871, 1, 32>>, <<93760, 93791, 1, 32>>, <<125184, 125217, 1, 34>>
  >>

\* Code points with the Unicode property Case_Ignorable: <<first, last>>.
CaseIgnorableRanges ==
  <<
    <<39, 39>>, <<46, 46>>, <<58, 58>>, <<94, 94>>, <<96, 96>>, <<168,
    168>>, <<173, 173>>, <<175, 175>>, <<180, 180>>, <<183, 184>>, <<688,
    879>>, <<884, 885>>, <<890, 890>>, <<900, 901>>, <<903, 903>>, <<1155,
    1161>>, <<1369, 1369>>, <<1375, 1375>>, <<1425, 1469>>, <<1471, 1471>>,
    <<1473, 1474>>, <<1476, 1477>>, <<1479, 1479>>, <<1524, 1524>>, <<1536,
    1541>>, <<1552, 1562>>, <<1564, 1564>>, <<1600, 1600>>, <<1611, 1631>>,
    <<1648, 1648>>, <<1750, 1757>>, <<1759, 1768>>, <<1770, 1773>>, <<1807,
    1807>>, <<1809, 1809>>, <<1840, 1866>>, <<1958, 1968>>, <<2027, 2037>>,
    <<2042, 2042>>, <<2045, 2045>>, <<2070, 2093>>, <<2137, 2139>>, <<2184,
    2184>>, <<2192, 2193>>, <<2200, 2207>>, <<2249, 2306>>, <<2362, 2362>>,
    <<2364, 2364>>, <<2369, 2376>>, <<2381, 2381>>, <<2385, 2391>>, <<2402,
    2403>>, <<2417, 2417>>, <<2433, 2433>>, <<2492, 2492>>, <<2497, 2500>>,
    <<2509, 2509>>, <<2530, 2531>>, <<2558, 2558>>, <<2561, 2562>>, <<2620,
    2620>>, <<2625, 2626>>, <<2631, 2632>>, <<2635, 2637>>, <<2641, 2641>>,
    <<2672, 2673>>, <<2677, 2677>>, <<2689, 2690>>, <<2748, 2748>>, <<2753,
    2757>>, <<2759, 2760>>, <<2765, 2765>>, <<2786, 2787>>, <<2810, 2815>>,
    <<2817, 2817>>, <<2876, 2876>>, <<2879, 2879>>, <<2881, 2884>>, <<2893,
    2893>>, <<2901, 2902>>, <<2914, 2915>>, <<2946, 2946>>, <<3008, 3008>>,
    <<3021, 3021>>, <<3072, 3072>>, <<3076, 3076>>, <<3132, 3132>>, <<3134,
    3136>>, <<3142, 3144>>, <<3146, 3149>>, <<3157, 3158>>, <<3170, 3171>>,
    <<3201, 3201>>, <<3260, 3260>>, <<3263, 3263>>, <<3270, 3270>>, <<3276,
    3277>>, <<3298, 3299>>, <<3328, 3329>>, <<3387, 3388>>, <<3393, 3396>>,
    <<3405, 3405>>, <<3426, 3427>>, <<3457, 3457>>, <<3530, 3530>>, <<3538,
    3540>>, <<3542, 3542>>, <<3633, 3633>>, <<3636, 3642>>, <<3654, 3662>>,
    <<3761, 3761>>, <<3764, 3772>>, <<3782, 3782>>, <<3784, 3789>>, <<3864,
    3865>>, <<3893, 3893>>, <<3895, 3895>>, <<3897, 3897>>, <<3953, 3966>>,
    <<3968, 3972>>, <<3974, 3975>>, <<3981, 3991>>, <<3993, 4028>>, <<4038,
    4038>>, <<4141, 4144>>, <<4146, 4151>>, <<4153, 4154>>, <<4157, 4158>>,
    <<4184, 4185>>, <<4190, 4192>>, <<4209, 4212>>, <<4226, 4226>>, <<4229,
    4230>>, <<4237, 4237>>, <<4253, 4253>>, <<4348, 4348>>, <<4957, 4959>>,
    <<5906, 5908>>, <<5938, 5939>>, <<5970, 5971>>, <<6002, 6003>>, <<6068,
    6069>>, <<6071, 6077>>, <<6086, 6086>>, <<6089, 6099>>, <<6103, 6103>>,
    <<6109, 6109>>, <<6155, 6159>>, <<6211, 6211>>, <<6277, 6278>>, <<6313,
    6313>>, <<6432, 6434>>, <<6439, 6440>>, <<6450, 6450>>, <<6457, 6459>>,
    <<6679, 6680>>, <<6683, 6683>>, <<6742, 6742>>, <<6744, 6750>>, <<6752,
    6752>>, <<6754, 6754>>, <<6757, 6764>>, <<6771, 6780>>, <<6783, 6783>>,
    <<6823, 6823>>, <<6832, 6862>>, <<6912, 6915>>, <<6964, 6964>>, <<6966,
    6970>>, <<6972, 6972>>, <<6978, 6978>>, <<7019, 7027>>, <<7040, 7041>>,
    <<7074, 7077>>, <<7080, 7081>>, <<7083, 7085>>, <<7142, 7142>>, <<7144,
    7145>>, <<7149, 7149>>, <<7151, 7153>>, <<7212, 7219>>, <<7222, 7223>>,
    <<7288, 7293>>, <<7376, 7378>>, <<7380, 7392>>, <<7394, 7400>>, <<7405,
    7405>>, <<7412, 7412>>, <<7416, 7417>>, <<7468, 7530>>, <<7544, 7544>>,
    <<7579, 7679>>, <<8125, 8125>>, <<8127, 8129>>, <<8141, 8143>>, <<8157,
    8159>>, <<8173, 8175>>, <<8189, 8190>>, <<8203, 8207>>, <<8216, 8217>>,
    <<8228, 8228>>, <<8231, 8231>>, <<8234, 8238>>, <<8288, 8292>>, <<8294,
    8303>>, <<8305, 8305>>, <<8319, 8319>>, <<8336, 8348>>, <<8400, 8432>>,
    <<11388, 11389>>, <<11503, 11505>>, <<11631, 11631>>, <<11647, 11647>>,
    <<11744, 11775>>, <<11823, 11823>>, <<12293, 12293>>, <<12330, 12333>>,
    <<12337, 12341>>, <<12347, 12347>>, <<12441, 12446>>, <<12540, 12542>>,
    <<40981, 40981>>, <<42232, 42237>>, <<42508, 42508>>, <<42607, 42610>>,
    <<42612, 42621>>, <<42623, 42623>>, <<42652, 42655>>, <<42736, 42737>>,
    <<42752, 42785>>, <<42864, 42864>>, <<42888, 42890>>, <<42994, 42996>>,
    <<43000, 43001>>, <<43010, 43010>>, <<43014, 43014>>, <<43019, 43019>>,
    <<43045, 43046>>, <<43052, 43052>>, <<43204, 43205>>, <<43232, 43249>>,
    <<43263, 43263>>, <<43302, 43309>>, <<43335, 43345>>, <<43392, 43394>>,
    <<43443, 43443>>, <<43446, 43449>>, <<43452, 43453>>, <<43471, 43471>>,
    <<43493, 43494>>, <<43561, 43566>>, <<43569, 43570>>, <<43573, 43574>>,
    <<43587, 43587>>, <<43596, 43596>>, <<43632, 43632>>, <<43644, 43644>>,
    <<43696, 43696>>, <<43698, 43700>>, <<43703, 43704>>, <<43710, 43711>>,
    <<43713, 43713>>, <<43741, 43741>>, <<43756, 43757>>, <<43763, 43764>>,
    <<43766, 43766>>, <<43867, 43871>>, <<43881, 43883>>, <<44005, 44005>>,
    <<44008, 44008>>, <<44013, 44013>>, <<64286, 64286>>, <<64434, 64450>>,
    <<65024, 65039>>, <<65043, 65043>>, <<65056, 65071>>, <<65106, 65106>>,
    <<65109, 65109>>, <<65279, 65279>>, <<65287, 65287>>, <<65294, 65294>>,
    <<65306, 65306>>, <<65342, 65342>>, <<65344, 65344>>, <<65392, 65392>>,
    <<65438, 65439>>, <<65507, 65507>>, <<65529, 65531>>, <<66045, 66045>>,
    <<66272, 66272>>, <<66422, 66426>>, <<67456, 67461>>, <<67463, 67504>>,
    <<67506, 67514>>, <<68097, 68099>>, <<68101, 68102>>, <<68108, 68111>>,
    <<68152, 68154>>, <<68159, 68159>>, <<68325, 68326>>, <<68900, 68903>>,
    <<69291, 69292>>, <<69446, 69456>>, <<69506, 69509>>, <<69633, 69633>>,
    <<69688, 69702>>, <<69744, 69744>>, <<69747, 69748>>, <<69759, 69761>>,
    <<69811, 69814>>, <<69817, 69818>>, <<69821, 69821>>, <<69826, 69826>>,
    <<69837, 69837>>, <<69888, 69890>>, <<69927, 69931>>, <<69933, 69940>>,
    <<70003, 70003>>, <<70016, 70017>>, <<70070, 70078>>, <<70089, 70092>>,
    <<70095, 70095>>, <<70191, 70193>>, <<70196, 70196>>, <<70198, 70199>>,
    <<70206, 70206>>, <<70367, 70367>>, <<70371, 70378>>, <<70400, 70401>>,
    <<70459, 70460>>, <<70464, 70464>>, <<70502, 70508>>, <<70512, 70516>>,
    <<70712, 70719>>, <<70722, 70724>>, <<70726, 70726>>, <<70750, 70750>>,
    <<70835, 70840>>, <<70842, 70842>>, <<70847, 70848>>, <<70850, 70851>>,
    <<71090, 71093>>, <<71100, 71101>>, <<71103, 71104>>, <<71132, 71133>>,
    <<71219, 71226>>, <<71229, 71229>>, <<71231, 71232>>, <<71339, 71339>>,
    <<71341, 71341>>, <<71344, 71349>>, <<71351, 71351>>, <<71453, 71455>>,
    <<71458, 71461>>, <<71463, 71467>>, <<71727, 71735>>, <<71737, 71738>>,
    <<71995, 71996>>, <<71998, 71998>>, <<72003, 72003>>, <<72148, 72151>>,
    <<72154, 72155>>, <<72160, 72160>>, <<72193, 72202>>, <<72243, 72248>>,
    <<72251, 72254>>, <<72263, 72263>>, <<72273, 72278>>, <<72281, 72283>>,
    <<72330, 72342>>, <<72344, 72345>>, <<72752, 72758>>, <<72760, 72765>>,
    <<72767, 72767>>, <<72850, 72871>>, <<72874, 72880>>, <<72882, 72883>>,
    <<72885, 72886>>, <<73009, 73014>>, <<73018, 73018>>, <<73020, 73021>>,
    <<73023, 73029>>, <<73031, 73031>>, <<73104, 73105>>, <<73109, 73109>>,
    <<73111, 73111>>, <<73459, 73460>>, <<78896, 78904>>, <<92912, 92916>>,
    <<92976, 92982>>, <<92992, 92995>>, <<94031, 94031>>, <<94095, 94111>>,
    <<94176, 94177>>, <<94179, 94180>>, <<110576, 110579>>, <<110581,
    110587>>, <<110589, 110590>>, <<113821, 113822>>, <<113824, 113827>>,
    <<118528, 118573>>, <<118576, 118598>>, <<119143, 119145>>, <<119155,
    119170>>, <<119173, 119179>>, <<119210, 119213>>, <<119362, 119364>>,
    <<121344, 121398>>, <<121403, 121452>>, <<121461, 121461>>, <<121476,
    121476>>, <<121499, 121503>>, <<121505, 121519>>, <<122880, 122886>>,
    <<122888, 122904>>, <<122907, 122913>>, <<122915, 122916>>, <<122918,
    122922>>, <<123184, 123197>>, <<123566, 123566>>, <<123628, 123631>>,
    <<125136, 125142>>, <<125252, 125259>>, <<127995, 127999>>, <<917505,
    917505>>, <<917536, 917631>>, <<917760, 917999>>
  >>

\* Code points with the Unicode property Cased: <<first, last>>.
CasedRanges ==
  <<
    <<65, 90>>, <<97, 122>>, <<170, 170>>, <<181, 181>>, <<186, 186>>,
    <<192, 214>>, <<216, 246>>, <<248, 442>>, <<444, 447>>, <<452, 659>>,
    <<661, 696>>, <<704, 705>>, <<736, 740>>, <<837, 837>>, <<880, 883>>,
    <<886, 887>>, <<890, 893>>, <<895, 895>>, <<902, 902>>, <<904, 906>>,
    <<908, 908>>, <<910, 929>>, <<931, 1013>>, <<1015, 1153>>, <<1162,
    1327>>, <<1329, 1366>>, <<1376, 1416>>, <<4256, 4293>>, <<4295, 4295>>,
    <<4301, 4301>>, <<4304, 4346>>, <<4349, 4351>>, <<5024, 5109>>, <<5112,
    5117>>, <<7296, 7304>>, <<7312, 7354>>, <<7357, 7359>>, <<7424, 7615>>,
    <<7680, 7957>>, <<7960, 7965>>, <<7968, 8005>>, <<8008, 8013>>, <<8016,
    8023>>, <<8025, 8025>>, <<8027, 8027>>, <<8029, 8029>>, <<8031, 8061>>,
    <<8064, 8116>>, <<8118, 8124>>, <<8126, 8126>>, <<8130, 8132>>, <<8134,
    8140>>, <<8144, 8147>>, <<8150, 8155>>, <<8160, 8172>>, <<8178, 8180>>,
    <<8182, 8188>>, <<8305, 8305>>, <<8319, 8319>>, <<8336, 8348>>, <<8450,
    8450>>, <<8455, 8455>>, <<8458, 8467>>, <<8469, 8469>>, <<8473, 8477>>,
    <<8484, 8484>>, <<8486, 8486>>, <<8488, 8488>>, <<8490, 8493>>, <<8495,
    8500>>, <<8505, 8505>>, <<8508, 8511>>, <<8517, 8521>>, <<8526, 8526>>,
    <<8544, 8575>>, <<8579, 8580>>, <<9398, 9449>>, <<11264, 11492>>,
    <<11499, 11502>>, <<11506, 11507>>, <<11520, 11557>>, <<11559, 11559>>,
    <<11565, 11565>>, <<42560, 42605>>, <<42624, 42653>>, <<42786, 42887>>,
    <<42891, 42894>>, <<42896, 42954>>, <<42960, 42961>>, <<42963, 42963>>,
    <<42965, 42969>>, <<42997, 42998>>, <<43000, 43002>>, <<43824, 43866>>,
    <<43868, 43880>>, <<43888, 43967>>, <<64256, 64262>>, <<64275, 64279>>,
    <<65313, 65338>>, <<65345, 65370>>, <<66560, 66639>>, <<66736, 66771>>,
    <<66776, 66811>>, <<66928, 66938>>, <<66940, 66954>>, <<66956, 66962>>,
    <<66964, 66965>>, <<66967, 66977>>, <<66979, 66993>>, <<66995, 67001>>,
    <<67003, 67004>>, <<67456, 67456>>, <<67459, 67461>>, <<67463, 67504>>,
    <<67506, 67514>>, <<68736, 68786>>, <<68800, 68850>>, <<71840, 71903>>,
    <<93760, 93823>>, <<119808, 119892>>, <<119894, 119964>>, <<119966,
    119967>>, <<119970, 119970>>, <<119973, 119974>>, <<119977, 119980>>,
    <<119982, 119993>>, <<119995, 119995>>, <<119997, 120003>>, <<120005,
    120069>>, <<120071, 120074>>, <<120077, 120084>>, <<120086, 120092>>,
    <<120094, 120121>>, <<120123, 120126>>, <<120128, 120132>>, <<120134,
    120134>>, <<120138, 120144>>, <<120146, 120485>>, <<120488, 120512>>,
    <<120514, 120538>>, <<120540, 120570>>, <<120572, 120596>>, <<120598,
    120628>>, <<120630, 120654>>, <<120656, 120686>>, <<120688, 120712>>,
    <<120714, 120744>>, <<120746, 120770>>, <<120772, 120779>>, <<122624,
    122633>>, <<122635, 122654>>, <<125184, 125251>>, <<127280, 127305>>,
    <<127312, 127337>>, <<127344, 127369>>
  >>

InRanges(c, ranges) == \E i \in 1..Len(ranges) : ranges[i][1] <= c /\ c <= ranges[i][2]

IsCaseIgnorable(c) == InRanges(c, CaseIgnorableRanges)
IsCased(c) == InRanges(c, CasedRanges)

\* chr(c).lower(): the lower-case form of one code point, a str of one code
\* point, or of two for U+0130.
Lower(c) ==
    IF c < 128 THEN (IF c >= 65 /\ c <= 90 THEN <<c + 32>> ELSE <<c>>)
    ELSE IF c = 304 THEN <<105, 775>>
    ELSE LET hit == {i \in 1..Len(LowerRuns) :
                        /\ LowerRuns[i][1] <= c /\ c <= LowerRuns[i][2]
                        /\ (c - LowerRuns[i][1]) % LowerRuns[i][3] = 0}
         IN  IF hit = {} THEN <<c>>
             ELSE <<c + LowerRuns[CHOOSE i \in hit : TRUE][4]>>

\* The Final_Sigma context of s[i]: a cased letter before it and none after
\* it, case-ignorable code points skipped on both sides.
FinalSigma(s, i) ==
    LET before == {j \in 1..(i - 1) : ~IsCaseIgnorable(s[j])}
        after == {j \in (i + 1)..Len(s) : ~IsCaseIgnorable(s[j])}
    IN  /\ before # {}
        /\ IsCased(s[CHOOSE j \in before : \A k \in before : k <= j])
        /\ \/ after = {}
           \/ ~IsCased(s[CHOOSE j \in after : \A k \in after : j <= k])

RECURSIVE LowerFrom(_, _)
LowerFrom(s, i) ==
    IF i > Len(s) THEN <<>>
    ELSE (IF s[i] = 931 THEN (IF FinalSigma(s, i) THEN <<962>> ELSE <<963>>)
          ELSE Lower(s[i])) \o LowerFrom(s, i + 1)

\* s.lower()
StrLower(s) == LowerFrom(s, 1)

EndsWith(s, suffix) ==
    /\ Len(s) >= Len(suffix)
    /\ SubSeq(s, Len(s) - Len(suffix) + 1, Len(s)) = suffix

\* a < b for Python str: the first differing code point decides, a proper
\* prefix is smaller.
StrLess(a, b) ==
    \E i \in 1..(Min(Len(a), Len(b)) + 1) :
        /\ \A j \in 1..(i - 1) : a[j] = b[j]
        /\ \/ i > Len(a) /\ i <= Len(b)
           \/ i <= Len(a) /\ i <= Len(b) /\ a[i] < b[i]

RECURSIVE insort(_, _)
insort(x, s) ==
    IF s = <<>> THEN <<x>>
    ELSE IF StrLess(x, Head(s)) THEN <<x>> \o s
    ELSE <<Head(s)>> \o insort(x, Tail(s))

\* The listing used as it comes, without sorted(): a plausible slip.
sorted_omitted(s) == s

RECURSIVE sorted(_)
sorted(s) == IF s = <<>> THEN <<>> ELSE insort(Head(s), sorted(Tail(s)))

DotCsv == <<46, 99, 115, 118>>          \* ".csv"

\* path.lower().endswith(".csv") without lower(): a plausible slip.
HasCsvExt_CaseSensitive(path) == EndsWith(path, DotCsv)

HasCsvExt(path) == EndsWith(StrLower(path), DotCsv)

(***************************************************************************)
(* The file system the calls run against: one directory, which is also     *)
(* the home directory, and its entries.                                    *)
(***************************************************************************)
DirPath == <<47, 104>>                  \* "/h"
Home == DirPath
NameB == <<66, 46, 99, 115, 118>>       \* "B.csv"
NameA == <<97, 46, 67, 83, 86>>         \* "a.CSV"
NameT == <<99, 46, 116, 120, 116>>      \* "c.txt"
DirNames == {NameB, NameA, NameT}

join(dir, name) ==
    IF dir # <<>> /\ dir[Len(dir)] = 47 THEN dir \o name
    ELSE dir \o <<47>> \o name

Missing == [kind |-> "missing", lines |-> <<>>]

Stat(path) ==
    IF path = DirPath THEN [kind |-> "dir", lines |-> <<>>]
    ELSE IF \E n \in DirNames : path = join(DirPath, n)
         THEN fs[CHOOSE n \in DirNames : path = join(DirPath, n)]
         ELSE Missing

exists(path) == Stat(path).kind # "missing"
isfile(path) == Stat(path).kind = "file"
isdir(path) == Stat(path).kind = "dir"

\* os.listdir: the names in the directory; the order is the caller's choice.
listdir(path) ==
    IF path = DirPath THEN {n \in DirNames : fs[n].kind # "missing"} ELSE {}

Orderings(S) ==
    {s \in [1..Cardinality(S) -> S] : \A i, j \in DOMAIN s : i # j => s[i] # s[j]}

\* posixpath.expanduser with HOME set and no other user known.
expanduser(path) ==
    IF path = <<>> \/ path[1] # 126 THEN path
    ELSE IF Len(path) = 1 \/ path[2] = 47
         THEN Home \o SubSeq(path, 2, Len(path))
         ELSE path

(***************************************************************************)
(* csv.reader and csv.DictReader.  A cell of a parsed row is a str, None   *)
(* (DictReader's restval) or a list of str (DictReader's restkey value).   *)
(***************************************************************************)
StrCell(t) == [k |-> "str", v |-> <<t>>]
ListCell(ts) == [k |-> "list", v |-> ts]

\* list(csv.reader(f)) : every record, blank lines as empty rows.
reader(lines) == [i \in 1..Len(lines) |-> [j \in 1..Len(lines[i]) |-> StrCell(lines[i][j])]]

\* d[key] = value on an insertion-ordered dict, kept as a sequence of items.
DictSet(d, key, val) ==
    IF \E i \in 1..Len(d) : d[i].key = key
    THEN [i \in 1..Len(d) |-> IF d[i].key = key THEN [key |-> key, val |-> val] ELSE d[i]]
    ELSE Append(d, [key |-> key, val |-> val])

\* dict(zip(fieldnames, row))
RECURSIVE DictZip(_, _, _)
DictZip(d, fieldnames, row) ==
    IF fieldnames = <<>> \/ row = <<>> THEN d
    ELSE DictZip(DictSet(d, StrCell(Head(fieldnames)), StrCell(Head(row))),
                 Tail(fieldnames), Tail(row))

\* for key in fieldnames[lr:]: d[key] = restval
RECURSIVE DictFill(_, _)
DictFill(d, keys) ==
    IF keys = <<>> THEN d
    ELSE DictFill(DictSet(d, StrCell(Head(keys)), None), Tail(keys))

\* DictReader.__next__ for one non-blank record.
DictRow(fieldnames, row) ==
    LET lf == Len(fieldnames)
        lr == Len(row)
        d == DictZip(<<>>, fieldnames, row)
    IN  IF lf < lr THEN DictSet(d, None, ListCell(SubSeq(row, lf + 1, lr)))
        ELSE IF lf > lr THEN DictFill(d, SubSeq(fieldnames, lr + 1, lf))
        ELSE d

\* [row[key] for key in row]
RowValues(d) == [i \in 1..Len(d) |-> d[i].val]

\* [[row[key] for key in row] for row in list(csv.DictReader(f))] : the first
\* record is the field names, blank records are skipped.
DictRows(lines) ==
    IF lines = <<>> THEN <<>>
    ELSE LET body == SelectSeq(Tail(lines), LAMBDA r : r # <<>>)
         IN  [i \in 1..Len(body) |-> RowValues(DictRow(Head(lines), body[i]))]

(***************************************************************************)
(* numpy arrays: [dtype, shape, rows]; rows are the elements along axis 0, *)
(* each the sequence of its elements along axis 1.                         *)
(***************************************************************************)
ValueError(msg) == [type |-> "ValueError", msg |-> msg]
FileNotFound == [type |-> "FileNotFoundError", msg |-> "does not exist or is not a file"]
NoCsvFound == ValueError("No CSV files found in directory")
NotACsv == ValueError("File must be a CSV")

Array(dtype, shape, rows) == [dtype |-> dtype, shape |-> shape, rows |-> rows]

RECURSIVE Product(_)
Product(s) == IF s = <<>> THEN 1 ELSE Head(s) * Product(Tail(s))

size(a) == Product(a.shape)

\* np.empty(shape)
empty(shape) == Array("float64", shape, <<>>)

AllScalar(rows) == \A i \in 1..Len(rows) : \A j \in 1..Len(rows[i]) : rows[i][j].k # "list"
AllLists(rows, m) ==
    \A i \in 1..Len(rows) : \A j \in 1..Len(rows[i]) :
        rows[i][j].k = "list" /\ Len(rows[i][j].v) = m
SameLen(rows) == \A i \in 1..Len(rows) : Len(rows[i]) = Len(rows[1])
Dtype(rows) ==
    IF \E i \in 1..Len(rows) : \E j \in 1..Len(rows[i]) : rows[i][j].k = "none"
    THEN "object" ELSE "str"

\* np.asarray(list of lists): err is None or the exception raised.
asarray(rows) ==
    IF rows = <<>> THEN [err |-> None, arr |-> Array("float64", <<0>>, <<>>)]
    ELSE IF ~SameLen(rows)
         THEN [err |-> ValueError("inhomogeneous shape"), arr |-> None]
    ELSE IF Len(rows[1]) = 0
         THEN [err |-> None, arr |-> Array("float64", <<Len(rows), 0>>, rows)]
    ELSE IF AllScalar(rows)
         THEN [err |-> None, arr |-> Array(Dtype(rows), <<Len(rows), Len(rows[1])>>, rows)]
    ELSE IF AllLists(rows, Len(rows[1][1].v))
         THEN [err |-> None,
               arr |-> Array("str", <<Len(rows), Len(rows[1]), Len(rows[1][1].v)>>, rows)]
    ELSE [err |-> ValueError("inhomogeneous shape"), arr |-> None]

RECURSIVE Flat(_)
Flat(ss) == IF ss = <<>> THEN <<>> ELSE Head(ss) \o Flat(Tail(ss))

RECURSIVE Sum(_)
Sum(s) == IF s = <<>> THEN 0 ELSE Head(s) + Sum(Tail(s))

\* np.concatenate(chunks, axis=0) of a non-empty list of arrays.
concatenate(chunks) ==
    IF \E i \in 1..Len(chunks) :
           \/ Len(chunks[i].shape) # Len(chunks[1].shape)
           \/ Tail(chunks[i].shape) # Tail(chunks[1].shape)
    THEN [err |-> ValueError("array dimensions must match"), arr |-> None]
    ELSE [err |-> None,
          arr |-> Array(IF \E i \in 1..Len(chunks) : chunks[i].dtype = "object"
                        THEN "object" ELSE "str",
                        <<Sum([i \in 1..Len(chunks) |-> chunks[i].shape[1]])>>
                            \o Tail(chunks[1].shape),
                        Flat([i \in 1..Len(chunks) |-> chunks[i].rows]))]

\* a[:, :n]
SliceTo(a, n) ==
    Array(a.dtype,
          <<a.shape[1], Min(n, a.shape[2])>> \o Tail(Tail(a.shape)),
          [i \in 1..Len(a.rows) |-> SubSeq(a.rows[i], 1, Min(n, Len(a.rows[i])))])

\* a[:, n:]
SliceFrom(a, n) ==
    Array(a.dtype,
          <<a.shape[1], Max(a.shape[2] - n, 0)>> \o Tail(Tail(a.shape)),
          [i \in 1..Len(a.rows) |-> SubSeq(a.rows[i], n + 1, Len(a.rows[i]))])

(***************************************************************************)
(* validate_path and the path resolution of read_csv.                      *)
(***************************************************************************)
Raise(e) == [err |-> e, val |-> None]
Return(v) == [err |-> None, val |-> v]

\* validate_path accepting whatever exists (isfile dropped): a plausible slip.
validate_path_ExistsOnly(path) ==
    LET expanded == expanduser(path)
    IN  IF exists(expanded) THEN Return(expanded) ELSE Raise(FileNotFound)

validate_path(path) ==
    LET expanded == expanduser(path)
    IN  IF exists(expanded) /\ isfile(expanded) THEN Return(expanded)
        ELSE Raise(FileNotFound)

\* The directory branch with the isfile() filter dropped: a plausible slip.
ResolveDir_NoIsFile(resolved_path, listing) ==
    LET joined == [i \in 1..Len(listing) |-> join(resolved_path, listing[i])]
        found == sorted(SelectSeq(joined, LAMBDA q : HasCsvExt(q)))
    IN  IF found = <<>> THEN Raise(NoCsvFound) ELSE Return(found)

\* read_csv, path is a directory: the regular files of the listing whose name
\* ends in .csv, joined to the directory and sorted, or ValueError when there
\* is none.
ResolveDir(resolved_path, listing) ==
    LET keep == SelectSeq(listing,
                    LAMBDA name : isfile(join(resolved_path, name)) /\ HasCsvExt(name))
        found == sorted([i \in 1..Len(keep) |-> join(resolved_path, keep[i])])
    IN  IF found = <<>> THEN Raise(NoCsvFound) ELSE Return(found)

\* The file branch with the extension tested before the path is validated: a
\* plausible slip.
ResolveFile_ExtFirst(resolved_path) ==
    IF ~HasCsvExt(resolved_path) THEN Raise(NotACsv)
    ELSE LET validated == validate_path(resolved_path)
         IN  IF validated.err # None THEN validated ELSE Return(<<validated.val>>)

\* read_csv, path is not a directory: validate_path, then the extension.
ResolveFile(resolved_path) ==
    LET validated == validate_path(resolved_path)
    IN  IF validated.err # None THEN validated
        ELSE IF ~HasCsvExt(validated.val) THEN Raise(NotACsv)
        ELSE Return(<<validated.val>>)

(***************************************************************************)
(* The body of the for loop and the end of read_csv.                       *)
(***************************************************************************)
\* The chunk of one open file.
ParseFile(lines, has_header) ==
    IF has_header THEN asarray(DictRows(lines)) ELSE asarray(reader(lines))

\* Leaving the with block without closing: a plausible slip (open() without with).
WithExit_Leak(files, path) == files

\* Leaving the with block, normally or by an exception: the file is closed.
WithExit(files, path) == files \ {path}

\* The empty result with the coordinate shape (0, 0): a plausible slip.
EmptyResult_Square == <<empty(<<0, 0>>), empty(<<0, 0>>)>>

\* return np.empty((0, 3)), np.empty((0, 0))
EmptyResult == <<empty(<<0, CoordCols>>), empty(<<0, 0>>)>>

\* The split one column early: a plausible slip.
Split_OffByOne(a) == <<SliceTo(a, CoordCols - 1), SliceFrom(a, CoordCols - 1)>>

\* return data[:, :3], data[:, 3:]
Split(a) == <<SliceTo(a, CoordCols), SliceFrom(a, CoordCols)>>

(***************************************************************************)
(* Inputs: the file systems and the calls.                                 *)
(***************************************************************************)
Widths == {0, CoordCols - 1, CoordCols, CoordCols + 1}

\* The text of field c of record l of file number f.
Text(f, l, c) == ToString(100 * f + 10 * l + c)

\* The records of file f with the given widths; with dup the second field of
\* the first record repeats the first.
Lines(f, widths, dup) ==
    [l \in 1..Len(widths) |->
        [c \in 1..widths[l] |-> IF dup /\ l = 1 /\ c = 2 THEN Text(f, 1, 1) ELSE Text(f, l, c)]]

WidthSeqs == UNION {[1..n -> Widths] : n \in 0..MaxLines}

File(lines) == [kind |-> "file", lines |-> lines]
NonFiles == {Missing, [kind |-> "dir", lines |-> <<>>], [kind |-> "other", lines |-> <<>>]}

\* B.csv: a file of records of one width, or no file.
EntriesB ==
    NonFiles \cup
    {File(Lines(1, [l \in 1..n |-> w], FALSE)) : n \in 0..MaxLines, w \in Widths \ {0}}

\* a.CSV: a file of records of any widths, or no file.
EntriesA ==
    {Missing, [kind |-> "dir", lines |-> <<>>]} \cup
    {File(Lines(2, ws, FALSE)) : ws \in WidthSeqs} \cup
    {File(Lines(2, ws, TRUE)) : ws \in {w \in WidthSeqs : Len(w) > 0 /\ w[1] >= 2}}

\* c.txt: a file with a header and one row.
EntriesT == {File(Lines(3, <<CoordCols, CoordCols>>, FALSE))}

FileSystems ==
    {(NameB :> eb) @@ (NameA :> ea) @@ (NameT :> et) :
        eb \in EntriesB, ea \in EntriesA, et \in EntriesT}

\* "/h", "~", "~/a.CSV", "~z.txt" (no such user, no such file), "/h/B.csv",
\* "/h/a.CSV", "/h/c.txt".
Tilde == <<126>>
Paths ==
    {DirPath, Tilde, Tilde \o <<47>> \o NameA, Tilde \o <<122, 46, 116, 120, 116>>}
    \cup {join(DirPath, n) : n \in DirNames}

(***************************************************************************)
(* The state machine.                                                      *)
(***************************************************************************)
Init ==
    /\ fs \in FileSystems
    /\ pc = "idle"
    /\ call = None
    /\ csv_paths = <<>>
    /\ idx = 1
    /\ openFiles = {}
    /\ opens = <<>>
    /\ chunk = None
    /\ data_chunks = <<>>
    /\ data = None
    /\ result = None
    /\ error = None

\* A call of validate_path(path), to its return or raise.
ValidatePath(path) ==
    /\ pc = "idle"
    /\ call' = [op |-> "validate_path", file_path |-> path, has_header |-> FALSE]
    /\ LET r == validate_path(path)
       IN  /\ result' = r.val
           /\ error' = r.err
           /\ pc' = IF r.err = None THEN "returned" ELSE "raised"
    /\ UNCHANGED <<fs, csv_paths, idx, openFiles, opens, chunk, data_chunks, data>>

\* read_csv lines 142-159: the path resolved to csv_paths, or an exception.
ReadCsvResolve(path, has_header) ==
    /\ pc = "idle"
    /\ call' = [op |-> "read_csv", file_path |-> path, has_header |-> has_header]
    /\ LET resolved_path == expanduser(path)
       IN  \E listing \in Orderings(listdir(resolved_path)) :
             LET r == IF isdir(resolved_path) THEN ResolveDir(resolved_path, listing)
                      ELSE ResolveFile(resolved_path)
             IN  IF r.err # None
                 THEN /\ error' = r.err
                      /\ pc' = "raised"
                      /\ UNCHANGED csv_paths
                 ELSE /\ csv_paths' = r.val
                      /\ pc' = "loop"
                      /\ UNCHANGED error
    /\ UNCHANGED <<fs, idx, openFiles, opens, chunk, data_chunks, data, result>>

\* line 163: open(csv_path) for the next path of the loop.
OpenFile ==
    /\ pc = "loop"
    /\ idx <= Len(csv_paths)
    /\ openFiles' = openFiles \cup {csv_paths[idx]}
    /\ opens' = Append(opens, csv_paths[idx])
    /\ pc' = "open"
    /\ UNCHANGED <<fs, call, csv_paths, idx, chunk, data_chunks, data, result, error>>

\* lines 164-168: the rows read and turned into an array, inside the with block.
ParseChunk ==
    /\ pc = "open"
    /\ LET r == ParseFile(Stat(csv_paths[idx]).lines, call.has_header)
       IN  IF r.err # None
           THEN /\ error' = r.err
                /\ pc' = "failing"
                /\ UNCHANGED chunk
           ELSE /\ chunk' = r.arr
                /\ pc' = "parsed"
                /\ UNCHANGED error
    /\ UNCHANGED <<fs, call, csv_paths, idx, openFiles, opens, data_chunks, data, result>>

\* lines 169-171 and the end of the with block: an empty chunk is skipped, any
\* other appended; the file is closed and the loop moves on.
CloseAfterChunk ==
    /\ pc = "parsed"
    /\ data_chunks' = IF size(chunk) = 0 THEN data_chunks ELSE Append(data_chunks, chunk)
    /\ openFiles' = WithExit(openFiles, csv_paths[idx])
    /\ chunk' = None
    /\ idx' = idx + 1
    /\ pc' = "loop"
    /\ UNCHANGED <<fs, call, csv_paths, opens, data, result, error>>

\* The with block left by the exception of the parse: the file is closed and
\* the exception leaves read_csv.
CloseOnError ==
    /\ pc = "failing"
    /\ openFiles' = WithExit(openFiles, csv_paths[idx])
    /\ pc' = "raised"
    /\ UNCHANGED <<fs, call, csv_paths, idx, opens, chunk, data_chunks, data, result, error>>

\* lines 173-177: the loop is over.
Finish ==
    /\ pc = "loop"
    /\ idx > Len(csv_paths)
    /\ IF data_chunks = <<>>
       THEN /\ result' = EmptyResult
            /\ pc' = "returned"
            /\ UNCHANGED <<data, error>>
       ELSE LET r == concatenate(data_chunks)
            IN  IF r.err # None
                THEN /\ error' = r.err
                     /\ pc' = "raised"
                     /\ UNCHANGED <<data, result>>
                ELSE /\ data' = r.arr
                     /\ result' = Split(r.arr)
                     /\ pc' = "returned"
                     /\ UNCHANGED error
    /\ UNCHANGED <<fs, call, csv_paths, idx, openFiles, opens, chunk, data_chunks>>

Next ==
    \/ \E path \in Paths : ValidatePath(path)
    \/ \E path \in Paths, has_header \in BOOLEAN : ReadCsvResolve(path, has_header)
    \/ OpenFile
    \/ ParseChunk
    \/ CloseAfterChunk
    \/ CloseOnError
    \/ Finish

Spec == Init /\ [][Next]_vars

(***************************************************************************)
(* Vocabulary of the properties.                                           *)
(***************************************************************************)
Ended == pc \in {"returned", "raised"}
InReadCsv == pc # "idle" /\ call.op = "read_csv"
InValidatePath == pc # "idle" /\ call.op = "validate_path"
Resolved == expanduser(call.file_path)
LowerCsvSuffix(path) == EndsWith(StrLower(path), <<46, 99, 115, 118>>)

\* The regular files of the directory whose name ends in .csv, as full paths.
CsvFilesIn(dir) ==
    {join(dir, n) : n \in {m \in listdir(dir) : fs[m].kind = "file" /\ LowerCsvSuffix(m)}}

\* The records of a file that carry fields, after the header when there is one.
RawRows(lines, has_header) ==
    SelectSeq(IF has_header THEN (IF lines = <<>> THEN <<>> ELSE Tail(lines)) ELSE lines,
              LAMBDA r : r # <<>>)

\* The rows a file contributes: those of its chunk, none when the chunk is empty.
RowsOf(path) ==
    LET r == ParseFile(Stat(path).lines, call.has_header)
    IN  IF r.err # None \/ size(r.arr) = 0 THEN <<>> ELSE r.arr.rows

\* The returned rows: coordinates followed by attributes.
RetRows == [i \in 1..Len(result[1].rows) |-> result[1].rows[i] \o result[2].rows[i]]

Range(s) == {s[i] : i \in 1..Len(s)}

RowCount(path) == Len(RawRows(Stat(path).lines, call.has_header))

RECURSIVE TotalRows(_)
TotalRows(S) ==
    IF S = {} THEN 0
    ELSE LET x == CHOOSE y \in S : TRUE IN RowCount(x) + TotalRows(S \ {x})

RowsAreConcatenation ==
    LET files == CsvFilesIn(Resolved)
    IN  /\ Len(result[1].rows) = TotalRows(files)
        /\ Len(result[2].rows) = Len(result[1].rows)
        /\ result[1].shape[1] = Len(result[1].rows)
        /\ \A p \in files :
              SelectSeq(RetRows, LAMBDA r : r \in Range(RowsOf(p))) = RowsOf(p)
        /\ \A i, j \in 1..Len(RetRows) : \A p, q \in files :
              (i < j /\ p # q /\ RetRows[i] \in Range(RowsOf(p))
                     /\ RetRows[j] \in Range(RowsOf(q))) => StrLess(p, q)

(***************************************************************************)
(* C1.  As claimed: for every directory and every set of regular .csv      *)
(* files in it, read_csv returns the row-wise concatenation of the files'  *)
(* rows in sorted file-name order, files without rows skipped: the row     *)
(* count is the sum of the per-file counts and the rows of an earlier      *)
(* file precede those of a later one.                                      *)
(***************************************************************************)
C1_Original ==
    (InReadCsv /\ Ended /\ isdir(Resolved) /\ CsvFilesIn(Resolved) # {})
        => (pc = "returned" /\ RowsAreConcatenation)

\* C1 amended: whenever read_csv on a directory returns, the returned rows are
\* the concatenation, in sorted file-name order, of the rows parsed from each
\* .csv regular file, files without rows skipped; the row count is the sum of
\* the per-file counts and earlier files' rows precede later files' rows.  (It
\* raises ValueError instead when the parsed rows do not all have one width.)
C1_Amended ==
    (InReadCsv /\ pc = "returned" /\ isdir(Resolved)) => RowsAreConcatenation

\* Both files of the directory contributed rows to a returned result.
C1_Witness ==
    /\ InReadCsv /\ pc = "returned" /\ isdir(Resolved)
    /\ Len(csv_paths) = 2 /\ Len(data_chunks) = 2
    /\ Len(result[1].rows) >= 3

(***************************************************************************)
(* C2.  read_csv on a path that does not exist raises FileNotFoundError    *)
(* whatever the extension: nothing is opened and nothing is returned.      *)
(***************************************************************************)
C2_MissingPathNotFound ==
    (InReadCsv /\ ~exists(Resolved))
        => (pc = "raised" /\ error = FileNotFound /\ opens = <<>> /\ openFiles = {}
            /\ result = None /\ csv_paths = <<>>)

\* A missing path without the .csv extension was refused as not found.
C2_Witness ==
    /\ InReadCsv /\ ~exists(Resolved) /\ ~LowerCsvSuffix(Resolved)
    /\ pc = "raised" /\ error = FileNotFound

(***************************************************************************)
(* C3.  validate_path returns the user-expanded path exactly when that     *)
(* path is an existing regular file, and raises FileNotFoundError, with    *)
(* nothing returned, in every other case.                                  *)
(***************************************************************************)
C3_ValidatePathIff ==
    InValidatePath =>
        IF Stat(expanduser(call.file_path)).kind = "file"
        THEN pc = "returned" /\ result = expanduser(call.file_path) /\ error = None
        ELSE pc = "raised" /\ error = FileNotFound /\ result = None

\* A "~/..." path was returned expanded.
C3_Witness ==
    /\ InValidatePath /\ pc = "returned"
    /\ call.file_path[1] = 126 /\ result = join(Home, NameA)

(***************************************************************************)
(* C4.  As claimed: read_csv on a directory without any regular .csv file  *)
(* raises before a file is opened, with an error kind distinct from the    *)
(* one raised for a file of the wrong extension.                           *)
(***************************************************************************)
EmptyDirCall == InReadCsv /\ isdir(Resolved) /\ CsvFilesIn(Resolved) = {}

C4_Original ==
    EmptyDirCall =>
        (pc = "raised" /\ opens = <<>> /\ result = None /\ error.type # NotACsv.type)

\* C4 amended: read_csv on a directory without any regular .csv file raises
\* ValueError("No CSV files found in directory ...") before a file is opened;
\* the exception class is the one also raised for a wrong extension (ValueError),
\* the two differ in their message only.
C4_Amended ==
    EmptyDirCall =>
        (pc = "raised" /\ opens = <<>> /\ openFiles = {} /\ result = None
         /\ error = NoCsvFound /\ error.type = "ValueError"
         /\ error.type = NotACsv.type /\ error.msg # NotACsv.msg)

\* The directory held a non-CSV file and a sub-directory named *.csv only.
C4_Witness ==
    /\ EmptyDirCall /\ pc = "raised" /\ Resolved = DirPath
    /\ fs[NameB].kind = "dir" /\ fs[NameT].kind = "file"

(***************************************************************************)
(* C5.  read_csv on an existing regular file whose name does not end in    *)
(* .csv raises ValueError("File must be a CSV") and never opens the file;  *)
(* a regular file whose name ends in .csv in any letter case is accepted.  *)
(***************************************************************************)
C5_ExtensionChecked ==
    (InReadCsv /\ Stat(Resolved).kind = "file") =>
        IF LowerCsvSuffix(Resolved)
        THEN /\ csv_paths = <<Resolved>>
             /\ error # NotACsv /\ error # FileNotFound
             /\ (Ended => opens = <<Resolved>>)
        ELSE /\ pc = "raised" /\ error = NotACsv
             /\ opens = <<>> /\ openFiles = {} /\ result = None

\* The .txt file was refused.
C5_Witness ==
    /\ InReadCsv /\ Resolved = join(DirPath, NameT) /\ Stat(Resolved).kind = "file"
    /\ pc = "raised" /\ error = NotACsv

(***************************************************************************)
(* C6.  Every read_csv result with at least one row has as many coordinate *)
(* rows as attribute rows; the coordinates are the first three columns of  *)
(* each row (all of them when the row has fewer), the attributes the       *)
(* remaining columns in order, so coordinates followed by attributes are   *)
(* the parsed row.                                                         *)
(***************************************************************************)
C6_SplitAtThree ==
    (InReadCsv /\ pc = "returned" /\ data # None) =>
        /\ data.rows = Flat([i \in 1..Len(data_chunks) |-> data_chunks[i].rows])
        /\ Len(data.rows) >= 1
        /\ Len(result[1].rows) = Len(data.rows)
        /\ Len(result[2].rows) = Len(data.rows)
        /\ result[1].shape[1] = result[2].shape[1]
        /\ \A i \in 1..Len(data.rows) :
              LET row == data.rows[i]
              IN  /\ result[1].rows[i] = SubSeq(row, 1, Min(3, Len(row)))
                  /\ result[2].rows[i] = SubSeq(row, 4, Len(row))
                  /\ result[1].rows[i] \o result[2].rows[i] = row
                  /\ result[1].shape[2] = Min(3, Len(row))
                  /\ result[2].shape[2] = Max(Len(row) - 3, 0)

\* A result whose rows have four columns: three coordinates, one attribute.
C6_Witness ==
    /\ InReadCsv /\ pc = "returned" /\ data # None
    /\ result[1].shape[2] = 3 /\ result[2].shape[2] = 1

(***************************************************************************)
(* C7.  As claimed: the two arrays read_csv returns are numeric, every     *)
(* value a number parsed from the CSV text.                                *)
(***************************************************************************)
NumericDtypes == {"float64", "int64"}

C7_NumericArrays ==
    (InReadCsv /\ pc = "returned") =>
        (result[1].dtype \in NumericDtypes /\ result[2].dtype \in NumericDtypes)

(***************************************************************************)
(* C8.  When no resolved file yields rows (each is empty or, with a        *)
(* header, holds its header only), read_csv does not fail and returns an   *)
(* empty (0, 3) coordinate array and an empty (0, 0) attribute array.      *)
(***************************************************************************)
NoFileYieldsRows ==
    /\ csv_paths # <<>>
    /\ \A i \in 1..Len(csv_paths) :
          RawRows(Stat(csv_paths[i]).lines, call.has_header) = <<>>

C8_EmptyResult ==
    (InReadCsv /\ NoFileYieldsRows) =>
        /\ pc # "failing" /\ pc # "raised" /\ error = None
        /\ (pc = "returned" =>
               /\ result = << [dtype |-> "float64", shape |-> <<0, 3>>, rows |-> <<>>],
                              [dtype |-> "float64", shape |-> <<0, 0>>, rows |-> <<>>] >>
               /\ data_chunks = <<>>)

\* With has_header a file holding only its header gave the empty result.
C8_Witness ==
    /\ InReadCsv /\ NoFileYieldsRows /\ pc = "returned" /\ call.has_header
    /\ \E i \in 1..Len(csv_paths) : Len(Stat(csv_paths[i]).lines) = 1

(***************************************************************************)
(* C9.  As claimed: with has_header the first record of every file is a    *)
(* header and never returned while every later record is returned with    *)
(* all of its fields; without has_header every record of every file is     *)
(* returned.  (Records without fields are left out of the comparison, and  *)
(* a None the reader pads a short row with is not counted as a field.)     *)
(***************************************************************************)
FieldsOf(row) == Flat([j \in 1..Len(row) |-> row[j].v])

C9_AllFieldsReturned ==
    (InReadCsv /\ pc = "returned") =>
        [i \in 1..Len(RetRows) |-> FieldsOf(RetRows[i])]
            = Flat([i \in 1..Len(csv_paths) |->
                        RawRows(Stat(csv_paths[i]).lines, call.has_header)])

(***************************************************************************)
(* C10.  During read_csv at most one file is open at a time, each file is  *)
(* closed before the next one is opened, the files are opened in the order *)
(* of csv_paths, and when the call has ended, by a return or by an         *)
(* exception raised while a file was being parsed, no file is open.        *)
(***************************************************************************)
C10_OneFileOpen ==
    /\ Cardinality(openFiles) <= 1
    /\ (pc \in {"idle", "loop", "returned", "raised"} => openFiles = {})
    /\ (pc \in {"open", "parsed", "failing"} => openFiles = {csv_paths[idx]})
    /\ Len(opens) <= Len(csv_paths)
    /\ opens = SubSeq(csv_paths, 1, Len(opens))

\* The call ended by an exception of the parse of its second file.
C10_Witness ==
    /\ InReadCsv /\ pc = "raised" /\ Len(opens) = 2 /\ openFiles = {}
    /\ error.type = "ValueError"

====
